---- MODULE Spec2Model ----
(***************************************************************************)
(* Audio-Visualizer (src/main.cpp): the capture pipeline.                  *)
(*                                                                         *)
(* Two threads: the producer thread runs DefaultSoundDevice::ProcessSound, *)
(* the main thread runs main() with the render loop and calls              *)
(* DefaultSoundDevice::Read once per tick.  They share the circular frame  *)
(* buffer (guarded by the AudioBuffer mutex) and the flag isOpen (not      *)
(* guarded).  The sample rate is scaled down so that a frame has a few     *)
(* bytes and the buffer a few slots; every derived size is computed by the *)
(* formula of the source.                                                  *)
(***************************************************************************)
EXTENDS Integers, Sequences, FiniteSets, TLC

\* ---------------------------------------------------------------- bounds
\* Sample rate in Hz, scaled down (the source uses 44100).
SAMPLE_RATE == 4
\* Number of device reads the model follows.
MaxReads == 3
\* Largest sample rate the frame size formula is evaluated at.
MaxRate == 250
\* Sample values are tried up to this far from the edges of the 16 bit range
\* and of its bytes
MaxEdge == 2

\* ------------------------------------------------------------- constants
\* FPS_LIMIT is 1.0 / 60.0: the frame period is one sixtieth of a second.
FPS_DIVISOR == 60
\* size_t(r * FPS_LIMIT) for a sample rate r: the double product truncated,
\* which is r \div 60 for every rate up to 200000.
PeriodSamples(r) == r \div FPS_DIVISOR
\* size_t(SAMPLE_RATE * FPS_LIMIT)
SamplesPerPeriod == PeriodSamples(SAMPLE_RATE)
\* The formula of AUDIO_FRAMEBUF_SIZE (and twice that of BUFSIZE) at rate r.
FrameBufSize(r) == 2 * (PeriodSamples(r) + 2 - (PeriodSamples(r) % 2))
\* Bytes of one frame.
AUDIO_FRAMEBUF_SIZE == FrameBufSize(SAMPLE_RATE)
\* SAMPLE_RATE as the program sets it
DeviceRate == 44100
\* sizeof(PCM16)
SizeofPcm16 == 2
\* sizeof(glm::vec2): two floats
SizeofVec2 == 8
\* Points of one frame: AUDIO_FRAMEBUF_SIZE / sizeof(PCM16)
FramePoints == AUDIO_FRAMEBUF_SIZE \div SizeofPcm16
\* AudioSample::capacity
capacity == AUDIO_FRAMEBUF_SIZE
\* buffer.data.set_capacity(...)
BufCapacity == SAMPLE_RATE \div AUDIO_FRAMEBUF_SIZE + 1

\* A byte the program never wrote (stack garbage of a default-constructed
\* AudioSample); 0 is what memset leaves, k >= 1 is the content of read k.
Garbage == 255

Threads == {"prod", "main"}

\* ------------------------------------------------------------ AudioSample
ByteIdx == 1..capacity
ZeroData == [i \in ByteIdx |-> 0]
\* AudioSample() {} leaves data indeterminate.
Uninit == {[i \in ByteIdx |-> g] : g \in {0, Garbage}}
\* std::copy(other.data, other.data + capacity, data)
CopyData(other) == [i \in ByteIdx |-> other[i]]
\* What a device read that delivered every byte of period k leaves in data.
FullFrame(k) == [i \in ByteIdx |-> k]
\* The byte counts after which a failing device read may have stopped.
FailPoints == {0, capacity \div 2}
\* What a device read of period k that stopped after j bytes leaves in data.
PartialFrame(old, k, j) == [i \in ByteIdx |-> IF i <= j THEN k ELSE old[i]]

\* ------------------------------------------------- boost::circular_buffer
\* A push_back that grows the buffer instead of overwriting the oldest element.
PushBackNoEvict(buf, item) == Append(buf, item)

\* push_back on a circular buffer: overwrite the oldest element when full.
PushBack(buf, item) ==
    IF Len(buf) = BufCapacity THEN Append(Tail(buf), item)
                              ELSE Append(buf, item)

VARIABLES
    pc,           \* position of each thread
    isOpen,       \* AudioSource::isOpen
    buffer,       \* DefaultSoundDevice::buffer.data, oldest first
    bufferLock,   \* owner of the AudioBuffer mutex
    samplerLock,  \* owner of the AudioSampler mutex
    scratch,      \* ProcessSound's local AudioSample sample
    read,         \* ProcessSound's local bool read
    sample,       \* main's local AudioSample sample of the current tick
    gotFrame,     \* value returned by the last DefaultSoundDevice::Read
    nReads,       \* device reads started so far
    pushed,       \* history: the frames pushed, in order
    consumed,     \* history: the frames handed to the render loop, in order
    fault,        \* the process was killed by undefined behaviour
    xPosition,    \* main's xPosition, as the number of steps of 2/SAMPLE_RATE
                  \* it is to the right of -1
    offset,       \* main's offset: byte offset of the next upload into vbo0
    count,        \* main's count: points handed to glDrawArrays
    channelValues0, \* main's channelValues0: the points of the current sweep
    vboPoints,    \* history: the ranges of point slots of vbo0 written by
                  \* the uploads of the current sweep
    tick,         \* history of the current tick: the cursor it started with,
                  \* its uploads and its draw calls
    hist,         \* history: whether Start and Stop were ever called, and the
                  \* reads and pushes done when Stop was last called
    error,        \* what() of the exception that ended main, <<>> if none
    rate,         \* the sample rate the program is built for
    frameBytes    \* the frame size computed for rate, 0 before

renderVars == <<xPosition, offset, count, channelValues0, vboPoints, tick>>
auxVars == <<hist, error, rate, frameBytes>>

vars == <<pc, isOpen, buffer, bufferLock, samplerLock, scratch, read,
          sample, gotFrame, nReads, pushed, consumed, fault, renderVars, auxVars>>

\* The history of a tick outside the render loop's body.
NoTick == [x0 |-> 0, offset0 |-> 0, count0 |-> 0, len0 |-> 0,
           uploads |-> 0, upOffset |-> -1, upX |-> -1,
           draws |-> 0, drawn |-> 0]

\* The members of a DefaultSoundDevice before its constructor has run, and
\* the locals of main and ProcessSound.
InitData ==
    /\ isOpen = FALSE
    /\ buffer = <<>>
    /\ bufferLock = "none"
    /\ samplerLock = "none"
    /\ scratch \in Uninit
    /\ read = FALSE
    /\ sample \in Uninit
    /\ gotFrame = FALSE
    /\ nReads = 0
    /\ pushed = <<>>
    /\ consumed = <<>>
    /\ fault = FALSE
    /\ xPosition = 0
    /\ offset = 0
    /\ count = 0
    /\ channelValues0 = <<>>
    /\ vboPoints = {}
    /\ tick = NoTick
    /\ hist = [started |-> FALSE, stopped |-> FALSE, reads |-> 0, pushes |-> 0]
    /\ error = <<>>

\* Entry of main.
Init ==
    /\ pc = [t \in Threads |-> IF t = "main" THEN "m_construct" ELSE "p_none"]
    /\ rate = SAMPLE_RATE
    /\ frameBytes = AUDIO_FRAMEBUF_SIZE
    /\ InitData

Goto(t, l) == pc' = [pc EXCEPT ![t] = l]

\* The assignment operators of AudioSample flow off their end without a
\* return statement: the build either carries on after the copy or the
\* process dies there.
Killed ==
    /\ fault' = TRUE
    /\ UNCHANGED <<pc, isOpen, buffer, bufferLock, samplerLock, scratch, read,
                   sample, gotFrame, nReads, pushed, consumed, renderVars,
                   auxVars>>

Alive == ~fault

\* ------------------------------------------------------------ the mutexes
\* A buffer access that does not wait for the mutex.
AcquireBufferNoWait(t) == bufferLock' = t

\* boost::lock_guard's constructor: blocks until the mutex is free.
AcquireBuffer(t) == bufferLock = "none" /\ bufferLock' = t
ReleaseBuffer(t) == bufferLock = t /\ bufferLock' = "none"
AcquireSampler(t) == samplerLock = "none" /\ samplerLock' = t
ReleaseSampler(t) == samplerLock = t /\ samplerLock' = "none"

\* ------------------------------------------------- the producer thread
\* An idle wait that never sees the flag change (the load hoisted out of the
\* loop).
P_PollOpenStale ==
    /\ Alive /\ pc["prod"] = "p_wait"
    /\ Goto("prod", "p_sleep")
    /\ UNCHANGED <<isOpen, buffer, bufferLock, samplerLock, scratch, read,
                   sample, gotFrame, nReads, pushed, consumed, fault,
                   renderVars, auxVars>>

\* A thread function without the idle wait: it enters the capture loop at once.
P_PollOpenEager ==
    /\ Alive /\ pc["prod"] = "p_wait"
    /\ Goto("prod", "p_lock_sampler")
    /\ UNCHANGED <<isOpen, buffer, bufferLock, samplerLock, scratch, read,
                   sample, gotFrame, nReads, pushed, consumed, fault,
                   renderVars, auxVars>>

\* ProcessSound, line 317: while (!isOpen)
P_PollOpen ==
    /\ Alive /\ pc["prod"] = "p_wait"
    /\ IF isOpen THEN Goto("prod", "p_loop") ELSE Goto("prod", "p_sleep")
    /\ UNCHANGED <<isOpen, buffer, bufferLock, samplerLock, scratch, read,
                   sample, gotFrame, nReads, pushed, consumed, fault, renderVars, auxVars>>

\* ProcessSound, line 319: sleep 25 ms, then poll again
P_Sleep ==
    /\ Alive /\ pc["prod"] = "p_sleep"
    /\ Goto("prod", "p_wait")
    /\ UNCHANGED <<isOpen, buffer, bufferLock, samplerLock, scratch, read,
                   sample, gotFrame, nReads, pushed, consumed, fault, renderVars, auxVars>>

\* A capture loop that goes on while the device has periods to deliver and
\* looks at the flag only afterwards.
P_LoopTestDeaf ==
    /\ Alive /\ pc["prod"] = "p_loop"
    /\ \/ nReads < MaxReads /\ Goto("prod", "p_lock_sampler")
       \/ ~isOpen /\ nReads >= MaxReads /\ Goto("prod", "p_done")
    /\ UNCHANGED <<isOpen, buffer, bufferLock, samplerLock, scratch, read,
                   sample, gotFrame, nReads, pushed, consumed, fault,
                   renderVars, auxVars>>

\* ProcessSound, line 322: while (isOpen); the function returns when it is false
P_LoopTest ==
    /\ Alive /\ pc["prod"] = "p_loop"
    /\ \/ isOpen /\ nReads < MaxReads /\ Goto("prod", "p_lock_sampler")
       \/ ~isOpen /\ Goto("prod", "p_done")
    /\ UNCHANGED <<isOpen, buffer, bufferLock, samplerLock, scratch, read,
                   sample, gotFrame, nReads, pushed, consumed, fault, renderVars, auxVars>>

\* ProcessSound, line 324: lock_guard<AudioSampler> samplerGuard(*sampler);
\* the blocking device read starts right after
P_LockSampler ==
    /\ Alive /\ pc["prod"] = "p_lock_sampler"
    /\ AcquireSampler("prod")
    /\ nReads' = nReads + 1
    /\ Goto("prod", "p_read")
    /\ UNCHANGED <<isOpen, buffer, bufferLock, scratch, read,
                   sample, gotFrame, pushed, consumed, fault, renderVars, auxVars>>

\* AudioSampler::Read: pa_simple_read fills sample.data with the bytes of the
\* current period and returns, or fails after j bytes and sets error.
P_ReadReturn ==
    /\ Alive /\ pc["prod"] = "p_read"
    /\ \/ scratch' = FullFrame(nReads) /\ read' = TRUE
       \/ \E j \in FailPoints :
             scratch' = PartialFrame(scratch, nReads, j) /\ read' = FALSE
    /\ Goto("prod", "p_lock_buffer")
    /\ UNCHANGED <<isOpen, buffer, bufferLock, samplerLock,
                   sample, gotFrame, nReads, pushed, consumed, fault, renderVars, auxVars>>

\* ProcessSound, line 326: lock_guard<AudioBuffer> bufferGuard(buffer)
P_LockBuffer ==
    /\ Alive /\ pc["prod"] = "p_lock_buffer"
    /\ AcquireBuffer("prod")
    /\ Goto("prod", "p_push")
    /\ UNCHANGED <<isOpen, buffer, samplerLock, scratch, read,
                   sample, gotFrame, nReads, pushed, consumed, fault, renderVars, auxVars>>

\* ProcessSound, line 327: buffer.data.push_back(std::move(sample)), whatever
\* read says.  A free slot is move-constructed, on a full buffer the oldest
\* slot is overwritten; either way the bytes are copied and the source zeroed.
P_PushFrame ==
    /\ pc["prod"] = "p_push"
    /\ buffer' = PushBack(buffer, CopyData(scratch))
    /\ pushed' = Append(pushed, CopyData(scratch))
    /\ scratch' = ZeroData
    /\ Goto("prod", "p_unlock_buffer")
    /\ UNCHANGED <<isOpen, bufferLock, samplerLock, read,
                   sample, gotFrame, nReads, consumed, fault, renderVars, auxVars>>

\* The overwrite of a full buffer's oldest slot is a move assignment
\* (AudioSample::operator=(AudioSample &&)).
P_Push ==
    /\ Alive /\ pc["prod"] = "p_push"
    /\ \/ P_PushFrame
       \/ Len(buffer) = BufCapacity /\ Killed

\* A bufferGuard declared outside the loop: the mutex stays locked over the
\* next iteration's device read.
P_UnlockBufferKept ==
    /\ Alive /\ pc["prod"] = "p_unlock_buffer"
    /\ Goto("prod", "p_unlock_sampler")
    /\ UNCHANGED <<isOpen, buffer, bufferLock, samplerLock, scratch, read,
                   sample, gotFrame, nReads, pushed, consumed, fault, renderVars, auxVars>>

\* ProcessSound, line 328: end of the loop body, bufferGuard is destroyed first
P_UnlockBuffer ==
    /\ Alive /\ pc["prod"] = "p_unlock_buffer"
    /\ ReleaseBuffer("prod")
    /\ Goto("prod", "p_unlock_sampler")
    /\ UNCHANGED <<isOpen, buffer, samplerLock, scratch, read,
                   sample, gotFrame, nReads, pushed, consumed, fault, renderVars, auxVars>>

\* ProcessSound, line 328: then samplerGuard
P_UnlockSampler ==
    /\ Alive /\ pc["prod"] = "p_unlock_sampler"
    /\ ReleaseSampler("prod")
    /\ Goto("prod", "p_loop")
    /\ UNCHANGED <<isOpen, buffer, bufferLock, scratch, read,
                   sample, gotFrame, nReads, pushed, consumed, fault, renderVars, auxVars>>

Producer ==
    \/ P_PollOpen \/ P_Sleep \/ P_LoopTest \/ P_LockSampler \/ P_ReadReturn
    \/ P_LockBuffer \/ P_Push \/ P_UnlockBuffer \/ P_UnlockSampler

\* ------------------------------------------------------- the main thread
\* DefaultSoundDevice::Start
Start == isOpen' = TRUE

\* DefaultSoundDevice::Stop
Stop == isOpen' = FALSE

\* Error texts pa_strerror may give for a failed pa_simple_new.
PaErrors == {"Connection refused", "Access denied"}

\* A constructor that reports the failure and carries on with a null stream.
M_ConstructNoThrow ==
    /\ Alive /\ pc["main"] = "m_construct"
    /\ \/ UNCHANGED error
       \/ \E e \in PaErrors : error' = <<"pa_simple_new error:", e>>
    /\ Goto("main", "m_spawn")
    /\ UNCHANGED <<isOpen, buffer, bufferLock, samplerLock, scratch, read,
                   sample, gotFrame, nReads, pushed, consumed, fault,
                   renderVars, hist, rate, frameBytes>>

\* main, line 334: new DefaultSoundDevice(argv[0]) opens the capture stream
\* (PaSimpleStream's constructor); when pa_simple_new fails it throws
\* runtime_error("pa_simple_new error:" + pa_strerror(error)), which nothing
\* catches: main ends there.
M_Construct ==
    /\ Alive /\ pc["main"] = "m_construct"
    /\ \/ /\ Goto("main", "m_spawn")
          /\ UNCHANGED error
       \/ \E e \in PaErrors :
             /\ error' = <<"pa_simple_new error:", e>>
             /\ Goto("main", "m_abort")
    /\ UNCHANGED <<isOpen, buffer, bufferLock, samplerLock, scratch, read,
                   sample, gotFrame, nReads, pushed, consumed, fault,
                   renderVars, hist, rate, frameBytes>>

\* main, line 335: the producer thread is created and enters ProcessSound
M_Spawn ==
    /\ Alive /\ pc["main"] = "m_spawn"
    /\ pc' = [pc EXCEPT !["main"] = "m_setup", !["prod"] = "p_wait"]
    /\ UNCHANGED <<isOpen, buffer, bufferLock, samplerLock, scratch, read,
                   sample, gotFrame, nReads, pushed, consumed, fault, renderVars, auxVars>>

\* main, lines 338-463: window, GL loader, shaders, program, vbo, vao; each
\* failure returns EXIT_FAILURE from main
M_Setup ==
    /\ Alive /\ pc["main"] = "m_setup"
    /\ \/ Goto("main", "m_loop")
       \/ Goto("main", "m_return")
    /\ UNCHANGED <<isOpen, buffer, bufferLock, samplerLock, scratch, read,
                   sample, gotFrame, nReads, pushed, consumed, fault, renderVars, auxVars>>

\* main, line 465: while (!glfwWindowShouldClose(window))
M_LoopTest ==
    /\ Alive /\ pc["main"] = "m_loop"
    /\ \/ Goto("main", "m_isopen")
       \/ Goto("main", "m_stop")
    /\ UNCHANGED <<isOpen, buffer, bufferLock, samplerLock, scratch, read,
                   sample, gotFrame, nReads, pushed, consumed, fault, renderVars, auxVars>>

\* main, lines 474-480: if (!audioSource->IsOpen()) Start(); then a fresh,
\* default-constructed sample for this tick
M_StartIfClosed ==
    /\ Alive /\ pc["main"] = "m_isopen"
    /\ IF ~isOpen
          THEN Start /\ hist' = [hist EXCEPT !.started = TRUE]
          ELSE UNCHANGED <<isOpen, hist>>
    /\ sample' \in Uninit
    /\ tick' = [x0 |-> xPosition, offset0 |-> offset, count0 |-> count,
                len0 |-> Len(channelValues0),
                uploads |-> 0, upOffset |-> -1, upX |-> -1,
                draws |-> 0, drawn |-> 0]
    /\ Goto("main", "m_lock_buffer")
    /\ UNCHANGED <<buffer, bufferLock, samplerLock, scratch, read,
                   gotFrame, nReads, pushed, consumed, fault,
                   xPosition, offset, count, channelValues0, vboPoints,
                   error, rate, frameBytes>>

\* DefaultSoundDevice::Read, line 291: lock_guard<AudioBuffer> bufferGuard(buffer)
M_LockBuffer ==
    /\ Alive /\ pc["main"] = "m_lock_buffer"
    /\ AcquireBuffer("main")
    /\ Goto("main", "m_read")
    /\ UNCHANGED <<isOpen, buffer, samplerLock, scratch, read,
                   sample, gotFrame, nReads, pushed, consumed, fault, renderVars, auxVars>>

\* A Read that clears the caller's frame before it looks at the buffer.
M_ReadClobber ==
    /\ Alive /\ pc["main"] = "m_read"
    /\ \/ /\ buffer = <<>>
          /\ sample' = ZeroData
          /\ gotFrame' = FALSE
          /\ Goto("main", "m_unlock")
          /\ UNCHANGED <<isOpen, buffer, bufferLock, samplerLock, scratch, read,
                         nReads, pushed, consumed, fault, renderVars, auxVars>>
       \/ /\ buffer # <<>>
          /\ sample' = CopyData(Head(buffer))
          /\ buffer' = Tail(buffer)
          /\ gotFrame' = TRUE
          /\ consumed' = Append(consumed,
                 [id |-> Len(pushed) - Len(buffer) + 1, data |-> sample'])
          /\ Goto("main", "m_unlock")
          /\ UNCHANGED <<isOpen, bufferLock, samplerLock, scratch, read,
                         nReads, pushed, fault, renderVars, auxVars>>
       \/ buffer # <<>> /\ Killed

\* DefaultSoundDevice::Read, lines 293-301: false on an empty buffer; else
\* sample = front() (AudioSample::operator=(const AudioSample &)), pop_front,
\* true
M_Read ==
    /\ Alive /\ pc["main"] = "m_read"
    /\ \/ /\ buffer = <<>>
          /\ gotFrame' = FALSE
          /\ Goto("main", "m_unlock")
          /\ UNCHANGED <<isOpen, buffer, bufferLock, samplerLock, scratch, read,
                         sample, nReads, pushed, consumed, fault, renderVars, auxVars>>
       \/ /\ buffer # <<>>
          /\ sample' = CopyData(Head(buffer))
          /\ buffer' = Tail(buffer)
          /\ gotFrame' = TRUE
          /\ consumed' = Append(consumed,
                 [id |-> Len(pushed) - Len(buffer) + 1, data |-> sample'])
          /\ Goto("main", "m_unlock")
          /\ UNCHANGED <<isOpen, bufferLock, samplerLock, scratch, read,
                         nReads, pushed, fault, renderVars, auxVars>>
       \/ buffer # <<>> /\ Killed

\* A Read that returns with the mutex still locked.
M_UnlockKept ==
    /\ Alive /\ pc["main"] = "m_unlock"
    /\ Goto("main", "m_render")
    /\ UNCHANGED <<isOpen, buffer, bufferLock, samplerLock, scratch, read,
                   sample, gotFrame, nReads, pushed, consumed, fault, renderVars, auxVars>>

\* DefaultSoundDevice::Read, line 302: bufferGuard is destroyed on return
M_Unlock ==
    /\ Alive /\ pc["main"] = "m_unlock"
    /\ ReleaseBuffer("main")
    /\ Goto("main", "m_render")
    /\ UNCHANGED <<isOpen, buffer, samplerLock, scratch, read,
                   sample, gotFrame, nReads, pushed, consumed, fault, renderVars, auxVars>>

\* A decoder that takes the bytes in the wrong order.
BytesToPcm16Swapped(msbyte, lsbyte) ==
    LET v == (lsbyte * 256 + msbyte) % 65536
    IN  IF v >= 32768 THEN v - 65536 ELSE v

\* BytesToPcm16: ((PCM16)msbyte << 8) | lsbyte, converted back to a signed
\* 16 bit value.
BytesToPcm16(msbyte, lsbyte) ==
    LET v == (msbyte * 256 + lsbyte) % 65536
    IN  IF v >= 32768 THEN v - 65536 ELSE v

\* Pcm16ToFloat: 2 * (value - INT16_MIN) / (INT16_MAX - INT16_MIN) - 1, as the
\* numerator over 65535.
Pcm16ToFloatNum(value) == 2 * (value + 32768) - 65535

\* Points of the frame being converted: AUDIO_FRAMEBUF_SIZE / sizeof(PCM16)
\* at the rate the program is built for.
PointsPerFrame == frameBytes \div SizeofPcm16

\* main, lines 486-497: the points of one frame, starting at x; point j is
\* decoded from bytes i = 2(j-1) and i+1, its y is Pcm16ToFloat / 2 (kept as
\* the numerator over 2 * 65535), and x advances by one step per point.
FramePointsOf(data, x) ==
    [j \in 1..PointsPerFrame |->
        [x |-> x + (j - 1),
         y |-> Pcm16ToFloatNum(BytesToPcm16(data[2 * j], data[2 * j - 1]))]]

\* Bytes of one frame's points: sizeof(glm::vec2) * AUDIO_FRAMEBUF_SIZE / 2
FrameUploadBytes == (SizeofVec2 * frameBytes) \div 2

\* A point buffer of one second of audio, without the extra frame.
NumPointsNoSlack(r) == r

\* main, line 415: numPoints = SAMPLE_RATE + SAMPLE_RATE * FPS_LIMIT,
\* converted to size_t
NumPoints(r) == r + PeriodSamples(r)
numPoints == NumPoints(rate)
\* main, line 434: the size of vbo0's data store in bytes
VboBytes == SizeofVec2 * numPoints

\* glBufferSubData(GL_ARRAY_BUFFER, off, FrameUploadBytes, ...): the point
\* slots a frame uploaded at byte offset off is written to.
UploadSlots(off) == [first |-> off \div SizeofVec2, n |-> PointsPerFrame]
\* The ranges written once that call returns: a range that reaches past the
\* end of the data store is GL_INVALID_VALUE and writes nothing.
Uploaded(ranges, off) ==
    IF off + FrameUploadBytes <= VboBytes THEN ranges \cup {UploadSlots(off)}
                                          ELSE ranges

\* xPosition > 1.0f: more than SAMPLE_RATE steps of 2/SAMPLE_RATE right of -1
PastRightEdge(x) == x > rate

\* A render step that converts and uploads whatever Read returned.
M_RenderAlways ==
    /\ Alive /\ pc["main"] = "m_render"
    /\ channelValues0' = channelValues0 \o FramePointsOf(sample, xPosition)
    /\ count' = count + PointsPerFrame
    /\ xPosition' = xPosition + PointsPerFrame
    /\ vboPoints' = Uploaded(vboPoints, offset)
    /\ offset' = offset + FrameUploadBytes
    /\ tick' = [tick EXCEPT !.uploads = @ + 1, !.upOffset = offset,
                            !.upX = xPosition]
    /\ Goto("main", "m_draw")
    /\ UNCHANGED <<isOpen, buffer, bufferLock, samplerLock, scratch, read,
                   sample, gotFrame, nReads, pushed, consumed, fault, auxVars>>

\* main, lines 481-503: when Read returned true, convert the frame to points,
\* append them to channelValues0, upload them at offset and advance offset;
\* nothing otherwise
M_Render ==
    /\ Alive /\ pc["main"] = "m_render"
    /\ IF gotFrame
          THEN /\ channelValues0' =
                      channelValues0 \o FramePointsOf(sample, xPosition)
               /\ count' = count + PointsPerFrame
               /\ xPosition' = xPosition + PointsPerFrame
               /\ vboPoints' = Uploaded(vboPoints, offset)
               /\ offset' = offset + FrameUploadBytes
               /\ tick' = [tick EXCEPT !.uploads = @ + 1, !.upOffset = offset,
                                       !.upX = xPosition]
          ELSE UNCHANGED renderVars
    /\ Goto("main", "m_draw")
    /\ UNCHANGED <<isOpen, buffer, bufferLock, samplerLock, scratch, read,
                   sample, gotFrame, nReads, pushed, consumed, fault, auxVars>>

\* main, lines 505-509: glDrawArrays(GL_LINE_STRIP, 0, count)
M_Draw ==
    /\ Alive /\ pc["main"] = "m_draw"
    /\ tick' = [tick EXCEPT !.draws = @ + 1, !.drawn = count]
    /\ Goto("main", "m_wrap")
    /\ UNCHANGED <<isOpen, buffer, bufferLock, samplerLock, scratch, read,
                   sample, gotFrame, nReads, pushed, consumed, fault,
                   xPosition, offset, count, channelValues0, vboPoints,
                   auxVars>>

\* A wrap that rewinds x and the count but goes on writing where it was.
M_WrapKeepOffset ==
    /\ Alive /\ pc["main"] = "m_wrap"
    /\ IF PastRightEdge(xPosition)
          THEN /\ xPosition' = 0
               /\ count' = 0
               /\ channelValues0' = <<>>
               /\ vboPoints' = {}
               /\ UNCHANGED offset
          ELSE UNCHANGED <<xPosition, offset, count, channelValues0,
                           vboPoints>>
    /\ tick' = NoTick
    /\ sample' = ZeroData
    /\ gotFrame' = FALSE
    /\ Goto("main", "m_loop")
    /\ UNCHANGED <<isOpen, buffer, bufferLock, samplerLock, scratch, read,
                   nReads, pushed, consumed, fault, auxVars>>

\* main, lines 520-537: if (xPosition > 1.0f) rewind x to -1, reset offset
\* and count, clear channelValues0; then swap buffers and poll events.  The
\* loop body ends here and its locals (sample, the result of Read) are gone.
M_Wrap ==
    /\ Alive /\ pc["main"] = "m_wrap"
    /\ IF PastRightEdge(xPosition)
          THEN /\ xPosition' = 0
               /\ offset' = 0
               /\ count' = 0
               /\ channelValues0' = <<>>
               /\ vboPoints' = {}
          ELSE UNCHANGED <<xPosition, offset, count, channelValues0,
                           vboPoints>>
    /\ tick' = NoTick
    /\ sample' = ZeroData
    /\ gotFrame' = FALSE
    /\ Goto("main", "m_loop")
    /\ UNCHANGED <<isOpen, buffer, bufferLock, samplerLock, scratch, read,
                   nReads, pushed, consumed, fault, auxVars>>

\* main, line 540: audioSource->Stop()
M_Stop ==
    /\ Alive /\ pc["main"] = "m_stop"
    /\ Stop
    /\ hist' = [hist EXCEPT !.stopped = TRUE, !.reads = nReads,
                            !.pushes = Len(pushed)]
    /\ Goto("main", "m_destroy_window")
    /\ UNCHANGED <<buffer, bufferLock, samplerLock, scratch, read,
                   sample, gotFrame, nReads, pushed, consumed, fault,
                   renderVars, error, rate, frameBytes>>

\* main, lines 542-544: glfwDestroyWindow(window); return EXIT_SUCCESS
M_DestroyWindow ==
    /\ Alive /\ pc["main"] = "m_destroy_window"
    /\ Goto("main", "m_return")
    /\ UNCHANGED <<isOpen, buffer, bufferLock, samplerLock, scratch, read,
                   sample, gotFrame, nReads, pushed, consumed, fault, renderVars, auxVars>>

\* A detached thread: leaving main does not wait for ProcessSound.
M_JoinDetached ==
    /\ Alive /\ pc["main"] = "m_return"
    /\ Goto("main", "m_joined")
    /\ UNCHANGED <<isOpen, buffer, bufferLock, samplerLock, scratch, read,
                   sample, gotFrame, nReads, pushed, consumed, fault,
                   renderVars, auxVars>>

\* main, line 335 and 545: leaving main destroys audioThread first; a
\* scoped_thread joins in its destructor, which returns when ProcessSound has
\* returned
M_Join ==
    /\ Alive /\ pc["main"] = "m_return"
    /\ pc["prod"] = "p_done"
    /\ Goto("main", "m_joined")
    /\ UNCHANGED <<isOpen, buffer, bufferLock, samplerLock, scratch, read,
                   sample, gotFrame, nReads, pushed, consumed, fault, renderVars, auxVars>>

\* main, line 334 and 545: then audioSource (the device, its sampler and its
\* buffer) is destroyed
M_Teardown ==
    /\ Alive /\ pc["main"] = "m_joined"
    /\ Goto("main", "m_exit")
    /\ UNCHANGED <<isOpen, buffer, bufferLock, samplerLock, scratch, read,
                   sample, gotFrame, nReads, pushed, consumed, fault, renderVars, auxVars>>

Main ==
    \/ M_Construct \/ M_Spawn \/ M_Setup \/ M_LoopTest \/ M_StartIfClosed \/ M_LockBuffer
    \/ M_Read \/ M_Unlock \/ M_Render \/ M_Draw \/ M_Wrap \/ M_Stop \/ M_DestroyWindow \/ M_Join
    \/ M_Teardown

Next == Producer \/ Main

Spec == Init /\ [][Next]_vars

\* Both threads are scheduled, a device read in flight returns (P_ReadReturn
\* is a producer step), and a thread blocked on the buffer mutex gets it when
\* it is free again and again: the other thread spends the time between two
\* critical sections outside the mutex (a device read, a render tick).
LiveSpec ==
    /\ Spec
    /\ WF_vars(Producer)
    /\ WF_vars(Main)
    /\ SF_vars(P_LockBuffer)
    /\ SF_vars(M_LockBuffer)

\* ------------------------------------------- the device under any client
\* The public interface of DefaultSoundDevice (Start, Stop, Read) called in
\* any order by the thread that owns the device, while the producer thread
\* runs ProcessSound.
InitApi ==
    /\ pc = [t \in Threads |-> IF t = "main" THEN "c_idle" ELSE "p_wait"]
    /\ rate = SAMPLE_RATE
    /\ frameBytes = AUDIO_FRAMEBUF_SIZE
    /\ InitData

\* audioSource->Start()
C_Start ==
    /\ Alive /\ pc["main"] = "c_idle"
    /\ Start
    /\ hist' = [hist EXCEPT !.started = TRUE]
    /\ UNCHANGED <<pc, buffer, bufferLock, samplerLock, scratch, read,
                   sample, gotFrame, nReads, pushed, consumed, fault,
                   renderVars, error, rate, frameBytes>>

\* audioSource->Stop()
C_Stop ==
    /\ Alive /\ pc["main"] = "c_idle"
    /\ Stop
    /\ hist' = IF hist.stopped THEN hist
               ELSE [hist EXCEPT !.stopped = TRUE, !.reads = nReads,
                                 !.pushes = Len(pushed)]
    /\ UNCHANGED <<pc, buffer, bufferLock, samplerLock, scratch, read,
                   sample, gotFrame, nReads, pushed, consumed, fault,
                   renderVars, error, rate, frameBytes>>

\* AudioSample sample; audioSource->Read(sample)
C_CallRead ==
    /\ Alive /\ pc["main"] = "c_idle"
    /\ sample' \in Uninit
    /\ Goto("main", "m_lock_buffer")
    /\ UNCHANGED <<isOpen, buffer, bufferLock, samplerLock, scratch, read,
                   gotFrame, nReads, pushed, consumed, fault,
                   renderVars, auxVars>>

\* DefaultSoundDevice::Read, line 302: bufferGuard is destroyed, Read returns
\* to the client, which is done with the frame
C_ReadReturn ==
    /\ Alive /\ pc["main"] = "m_unlock"
    /\ ReleaseBuffer("main")
    /\ sample' = ZeroData
    /\ gotFrame' = FALSE
    /\ Goto("main", "c_idle")
    /\ UNCHANGED <<isOpen, buffer, samplerLock, scratch, read,
                   nReads, pushed, consumed, fault, renderVars, auxVars>>

Client == C_Start \/ C_Stop \/ C_CallRead \/ M_LockBuffer \/ M_Read \/ C_ReadReturn

ApiNext == Producer \/ Client

ApiSpec == InitApi /\ [][ApiNext]_vars

\* ------------------------------------------------- the frame size formula
\* AUDIO_FRAMEBUF_SIZE evaluated at every sample rate up to MaxRate.
InitFrame ==
    /\ pc = [t \in Threads |-> IF t = "main" THEN "f_calc" ELSE "p_none"]
    /\ rate \in 1..MaxRate
    /\ frameBytes = 0
    /\ InitData

F_Compute ==
    /\ pc["main"] = "f_calc"
    /\ frameBytes' = FrameBufSize(rate)
    /\ Goto("main", "f_done")
    /\ UNCHANGED <<isOpen, buffer, bufferLock, samplerLock, scratch, read,
                   sample, gotFrame, nReads, pushed, consumed, fault,
                   renderVars, hist, error, rate>>

FrameSpec == InitFrame /\ [][F_Compute]_vars

\* ------------------------------------------------------- sample decoding
\* INT16_MIN and INT16_MAX, the range of PCM16
INT16_MIN == -32768
INT16_MAX == 32767
\* The sample values tried: those around the ends of the range, around zero
\* and around the values where the low byte or the sign of the high byte
\* turns over.
Pcm16Tested ==
    {e + d : e \in {INT16_MIN, -256, -128, 0, 128, 256, INT16_MAX},
             d \in (-MaxEdge)..MaxEdge} \cap (INT16_MIN..INT16_MAX)

\* PA_SAMPLE_S16LE: the device stores a sample as its 16 bit two's complement
\* pattern, low byte first.
LoByte(v) == (v % 65536) % 256
HiByte(v) == (v % 65536) \div 256
\* The frame the device delivers for the samples vs, one per point.
EncodeFrame(vs) ==
    [i \in ByteIdx |-> IF i % 2 = 1 THEN LoByte(vs[(i + 1) \div 2])
                                    ELSE HiByte(vs[i \div 2])]

\* main, line 486: the values i takes in the conversion loop
ConvertIdx == {i \in 0..(AUDIO_FRAMEBUF_SIZE - 1) : i % SizeofPcm16 = 0}

\* The render loop at the conversion of a frame that Read has just returned,
\* for any samples in the frame.
InitDecode ==
    /\ pc = [t \in Threads |-> IF t = "main" THEN "m_render" ELSE "p_none"]
    /\ isOpen = TRUE
    /\ buffer = <<>>
    /\ bufferLock = "none"
    /\ samplerLock = "none"
    /\ scratch \in Uninit
    /\ read = FALSE
    /\ \E vs \in [1..FramePoints -> Pcm16Tested] : sample = EncodeFrame(vs)
    /\ gotFrame = TRUE
    /\ nReads = 0
    /\ pushed = <<>>
    /\ consumed = <<>>
    /\ fault = FALSE
    /\ xPosition = 0
    /\ offset = 0
    /\ count = 0
    /\ channelValues0 = <<>>
    /\ vboPoints = {}
    /\ tick = NoTick
    /\ hist = [started |-> TRUE, stopped |-> FALSE, reads |-> 0, pushes |-> 0]
    /\ error = <<>>
    /\ rate = SAMPLE_RATE
    /\ frameBytes = AUDIO_FRAMEBUF_SIZE

DecodeNext == M_Render \/ M_Draw \/ M_Wrap
DecodeSpec == InitDecode /\ [][DecodeNext]_vars

\* ------------------------------------- the render loop at the real rate
\* main when it enters the render loop, with the sizes the program is built
\* with.
InitSweep ==
    /\ pc = [t \in Threads |-> IF t = "main" THEN "m_loop" ELSE "p_none"]
    /\ rate = DeviceRate
    /\ frameBytes = FrameBufSize(DeviceRate)
    /\ InitData

\* The points of a list kept as one run [x, n] per converted frame.
RECURSIVE RunPointsIn(_, _, _)
RunPointsIn(runs, lo, hi) ==
    IF lo > hi THEN 0
    ELSE IF lo = hi THEN runs[lo].n
    ELSE LET mid == (lo + hi) \div 2
         IN  RunPointsIn(runs, lo, mid) + RunPointsIn(runs, mid + 1, hi)
RunPoints(runs) == RunPointsIn(runs, 1, Len(runs))

\* main, lines 465-481: the head of a tick; Start() when the source is closed,
\* then Read, which returns a frame or nothing.  What the frame holds is not
\* followed here.
S_Tick ==
    /\ pc["main"] = "m_loop"
    /\ isOpen' = TRUE
    /\ hist' = [hist EXCEPT !.started = TRUE]
    /\ gotFrame' \in BOOLEAN
    /\ sample' = ZeroData
    /\ tick' = [x0 |-> xPosition, offset0 |-> offset, count0 |-> count,
                len0 |-> RunPoints(channelValues0),
                uploads |-> 0, upOffset |-> -1, upX |-> -1,
                draws |-> 0, drawn |-> 0]
    /\ Goto("main", "m_render")
    /\ UNCHANGED <<buffer, bufferLock, samplerLock, scratch, read,
                   nReads, pushed, consumed, fault,
                   xPosition, offset, count, channelValues0, vboPoints,
                   error, rate, frameBytes>>

\* A render step that uploads every frame at the offset it started with.
S_RenderNoAdvance ==
    /\ pc["main"] = "m_render"
    /\ IF gotFrame
          THEN /\ channelValues0' =
                      Append(channelValues0,
                             [x |-> xPosition, n |-> PointsPerFrame])
               /\ count' = count + PointsPerFrame
               /\ xPosition' = xPosition + PointsPerFrame
               /\ vboPoints' = Uploaded(vboPoints, offset)
               /\ offset' = offset
               /\ tick' = [tick EXCEPT !.uploads = @ + 1, !.upOffset = offset,
                                       !.upX = xPosition]
          ELSE UNCHANGED renderVars
    /\ Goto("main", "m_draw")
    /\ UNCHANGED <<isOpen, buffer, bufferLock, samplerLock, scratch, read,
                   sample, gotFrame, nReads, pushed, consumed, fault, auxVars>>

\* main, lines 481-503, with the points a frame appends to channelValues0
\* kept as one run: PointsPerFrame points starting at x
S_Render ==
    /\ pc["main"] = "m_render"
    /\ IF gotFrame
          THEN /\ channelValues0' =
                      Append(channelValues0,
                             [x |-> xPosition, n |-> PointsPerFrame])
               /\ count' = count + PointsPerFrame
               /\ xPosition' = xPosition + PointsPerFrame
               /\ vboPoints' = Uploaded(vboPoints, offset)
               /\ offset' = offset + FrameUploadBytes
               /\ tick' = [tick EXCEPT !.uploads = @ + 1, !.upOffset = offset,
                                       !.upX = xPosition]
          ELSE UNCHANGED renderVars
    /\ Goto("main", "m_draw")
    /\ UNCHANGED <<isOpen, buffer, bufferLock, samplerLock, scratch, read,
                   sample, gotFrame, nReads, pushed, consumed, fault, auxVars>>

SweepNext == S_Tick \/ S_Render \/ M_Draw \/ M_Wrap
SweepSpec == InitSweep /\ [][SweepNext]_vars

\* -------------------------------------------- the single-threaded variant
\* BUFSIZE at rate r: the bytes read from the device in one tick
BufSize(r) == PeriodSamples(r) + 2 - (PeriodSamples(r) % 2)
\* numPoints = SAMPLE_RATE * 3
MonoNumPoints(r) == 3 * r
\* glBufferData(GL_ARRAY_BUFFER, sizeof(glm::vec2) * numPoints, ...)
MonoVboBytes == SizeofVec2 * MonoNumPoints(rate)
\* glBufferSubData at byte offset off: GL_INVALID_VALUE and nothing written
\* when the range reaches past the end of the data store
MonoUploaded(ranges, off) ==
    IF off + FrameUploadBytes <= MonoVboBytes
       THEN ranges \cup {UploadSlots(off)}
       ELSE ranges

\* main of the variant when it enters its loop; the only thread
InitMono ==
    /\ pc = [t \in Threads |-> IF t = "main" THEN "n_loop" ELSE "p_none"]
    /\ rate = DeviceRate
    /\ frameBytes = BufSize(DeviceRate)
    /\ InitData

\* the variant, lines 286-322: leave the loop when the window was closed or
\* the device read failed; otherwise convert the BUFSIZE / 2 samples read,
\* append them to channelValues0 (kept as one run) and upload them at offset.
\* Here x advances by 1/SAMPLE_RATE per point, and xPosition counts those.
N_Render ==
    /\ pc["main"] = "n_loop"
    /\ \/ /\ Goto("main", "n_exit")
          /\ UNCHANGED renderVars
       \/ /\ channelValues0' =
                 Append(channelValues0,
                        [x |-> xPosition, n |-> PointsPerFrame])
          /\ count' = count + PointsPerFrame
          /\ xPosition' = xPosition + PointsPerFrame
          /\ vboPoints' = MonoUploaded(vboPoints, offset)
          /\ offset' = offset + FrameUploadBytes
          /\ tick' = [x0 |-> xPosition, offset0 |-> offset, count0 |-> count,
                      len0 |-> RunPoints(channelValues0),
                      uploads |-> 1, upOffset |-> offset, upX |-> xPosition,
                      draws |-> 0, drawn |-> 0]
          /\ Goto("main", "n_draw")
    /\ UNCHANGED <<isOpen, buffer, bufferLock, samplerLock, scratch, read,
                   sample, gotFrame, nReads, pushed, consumed, fault, auxVars>>

\* the variant, lines 324-329: glDrawArrays(GL_LINE_STRIP, 0, count)
N_Draw ==
    /\ pc["main"] = "n_draw"
    /\ tick' = [tick EXCEPT !.draws = @ + 1, !.drawn = count]
    /\ Goto("main", "n_wrap")
    /\ UNCHANGED <<isOpen, buffer, bufferLock, samplerLock, scratch, read,
                   sample, gotFrame, nReads, pushed, consumed, fault,
                   xPosition, offset, count, channelValues0, vboPoints,
                   auxVars>>

\* the variant, lines 338-352: reset the sweep when channelValues0.size() has
\* reached numPoints
N_Wrap ==
    /\ pc["main"] = "n_wrap"
    /\ IF RunPoints(channelValues0) >= MonoNumPoints(rate)
          THEN /\ xPosition' = 0
               /\ offset' = 0
               /\ count' = 0
               /\ channelValues0' = <<>>
               /\ vboPoints' = {}
          ELSE UNCHANGED <<xPosition, offset, count, channelValues0,
                           vboPoints>>
    /\ tick' = NoTick
    /\ Goto("main", "n_loop")
    /\ UNCHANGED <<isOpen, buffer, bufferLock, samplerLock, scratch, read,
                   sample, gotFrame, nReads, pushed, consumed, fault, auxVars>>

MonoNext == N_Render \/ N_Draw \/ N_Wrap
MonoSpec == InitMono /\ [][MonoNext]_vars

TypeOK ==
    /\ pc \in [Threads -> STRING]
    /\ isOpen \in BOOLEAN
    /\ bufferLock \in {"none", "prod", "main"}
    /\ samplerLock \in {"none", "prod"}
    /\ Len(buffer) \in 0..BufCapacity
    /\ nReads \in 0..MaxReads

\* ------------------------------------------------------------ properties
\* Frames pushed and since evicted: neither consumed nor still buffered.
Evicted == Len(pushed) - Len(consumed) - Len(buffer)

\* The last n elements of a sequence.
LastN(q, n) == SubSeq(q, Len(q) - n + 1, Len(q))

\* C1: the frame buffer never holds more than BufCapacity frames, and a
\* producer that has reached its push can always push, however full the
\* buffer is.
C1_BoundedNeverBlocks ==
    /\ Len(buffer) <= BufCapacity
    /\ (Alive /\ pc["prod"] = "p_push") => ENABLED P_PushFrame

\* C1 witness: the buffer is full after a push that overwrote a frame.
C1_Witness ==
    /\ Len(buffer) = BufCapacity
    /\ Evicted > 0
    /\ pc["prod"] = "p_unlock_buffer"

\* C2: every push leaves the most recent frames in arrival order, dropping
\* exactly the oldest one when the buffer was full, so that after
\* BufCapacity + k pushes without a pop the buffer is exactly the last
\* BufCapacity frames pushed; the buffer always holds the latest frames
\* pushed, oldest first, which is the order pops take them in.
C2_MostRecentFifo ==
    /\ [][P_Push =>
            /\ buffer' = IF Len(buffer) = BufCapacity
                            THEN Append(Tail(buffer), scratch)
                            ELSE Append(buffer, scratch)
            /\ (consumed = <<>> /\ Len(pushed') >= BufCapacity
                    => buffer' = LastN(pushed', BufCapacity))]_vars
    /\ [](Len(buffer) <= Len(pushed) /\ buffer = LastN(pushed, Len(buffer)))

\* C3: a Read on a non-empty buffer returns true with the oldest frame,
\* removes exactly that frame, and the frames consumed so far are frames
\* pushed, in push order, none twice.
C3_ReadOldest ==
    /\ [][(M_Read /\ buffer # <<>>) =>
            /\ gotFrame' = TRUE
            /\ sample' = Head(buffer)
            /\ buffer' = Tail(buffer)]_vars
    /\ [](\A i \in 1..Len(consumed) :
            /\ consumed[i].id \in 1..Len(pushed)
            /\ consumed[i].data = pushed[consumed[i].id]
            /\ (i > 1 => consumed[i - 1].id < consumed[i].id))

\* C4: a Read on an empty buffer is never blocked once it has the mutex,
\* returns false, and leaves the buffer, isOpen and the caller's frame as
\* they were.
C4_EmptyRead ==
    /\ []((Alive /\ pc["main"] = "m_read") => ENABLED M_Read)
    /\ [][(pc["main"] = "m_read" /\ buffer = <<>> /\ pc'["main"] # "m_read") =>
            /\ gotFrame' = FALSE
            /\ pc'["main"] = "m_unlock"
            /\ UNCHANGED <<buffer, isOpen, sample, pushed, consumed>>]_vars

\* C4 witness: Read has just returned false.
C4_Witness ==
    /\ pc["main"] = "m_unlock"
    /\ gotFrame = FALSE
    /\ buffer = <<>>
    /\ isOpen

\* A thread is inside a buffer access: between taking and releasing the mutex.
InBuffer(t) ==
    IF t = "prod" THEN pc[t] \in {"p_push", "p_unlock_buffer"}
                  ELSE pc[t] \in {"m_read", "m_unlock"}

\* C5: a thread inside a buffer access holds the buffer mutex, so the two
\* threads are never inside a buffer access together.
C5_MutualExclusion ==
    /\ \A t \in Threads : InBuffer(t) => bufferLock = t
    /\ ~(InBuffer("prod") /\ InBuffer("main"))

\* C5 witness: the render thread is held off at the mutex while the producer
\* is pushing.
C5_Witness ==
    /\ pc["prod"] = "p_push"
    /\ pc["main"] = "m_lock_buffer"
    /\ bufferLock = "prod"

\* C6: the producer holds the buffer mutex only between the return of a
\* device read and the end of that iteration, never while a device read is in
\* progress, so a Read called during a device read gets the mutex at once.
C6_NoLockAcrossRead ==
    /\ bufferLock = "prod" => pc["prod"] \in {"p_push", "p_unlock_buffer"}
    /\ pc["prod"] = "p_read" => bufferLock # "prod"
    /\ (Alive /\ pc["prod"] = "p_read" /\ pc["main"] = "m_lock_buffer")
          => ENABLED M_LockBuffer

\* C6 witness: the render thread is inside Read during the second device
\* read, after a first push.
C6_Witness ==
    /\ pc["prod"] = "p_read"
    /\ pc["main"] = "m_read"
    /\ nReads >= 2
    /\ Len(pushed) >= 1

\* The mutex a thread is blocked on, "none" when it is not at a lock_guard.
WaitsFor(t) ==
    IF pc[t] \in {"p_lock_buffer", "m_lock_buffer"} THEN "buffer"
    ELSE IF pc[t] = "p_lock_sampler" THEN "sampler"
    ELSE "none"

Holder(m) == IF m = "buffer" THEN bufferLock ELSE samplerLock

\* A thread is stuck for good: it waits for a mutex it holds itself, or for
\* one held by a thread that in turn waits for a mutex the first one holds.
Stuck(t) ==
    /\ WaitsFor(t) # "none"
    /\ \/ Holder(WaitsFor(t)) = t
       \/ \E u \in Threads \ {t} :
             /\ Holder(WaitsFor(t)) = u
             /\ WaitsFor(u) # "none"
             /\ Holder(WaitsFor(u)) = t

\* C7: the two threads never deadlock on the sampler and buffer mutexes, and
\* as long as the process runs a thread waiting for the buffer mutex gets it.
C7_NoDeadlock ==
    /\ [](\A t \in Threads : ~Stuck(t))
    /\ \A t \in Threads :
          (Alive /\ WaitsFor(t) = "buffer") ~> (bufferLock = t \/ fault)

\* C7 witness: while the source is started, the producer waits for the buffer
\* mutex that the render thread holds inside Read.
C7_Witness ==
    /\ isOpen
    /\ pc["prod"] = "p_lock_buffer"
    /\ pc["main"] = "m_read"
    /\ bufferLock = "main"
    /\ samplerLock = "prod"

\* A frame that is, byte for byte, what one completed device read delivered.
IsCompleteRead(d) == \E k \in 1..MaxReads : d = FullFrame(k)

\* C8: every frame the render loop gets from Read is the content of one
\* completed device read, and the frames stored in the buffer are the frames
\* that were pushed, untouched by the reads into the producer's scratch frame.
C8_WholeFrames ==
    /\ \A i \in 1..Len(consumed) : IsCompleteRead(consumed[i].data)
    /\ \A i \in 1..Len(buffer) :
          buffer[i] = pushed[Len(pushed) - Len(buffer) + i]

\* C9: every step that reads or writes isOpen is taken by a thread that
\* holds the buffer mutex.
C9_IsOpenGuarded ==
    [][/\ (M_StartIfClosed \/ M_Stop) => bufferLock = "main"
       /\ (P_PollOpen \/ P_LoopTest) => bufferLock = "prod"]_vars

\* C10: once Stop() has been called, the producer thread leaves ProcessSound
\* (so the join at the end of main returns), as long as the process runs.
C10_StopTerminates ==
    (pc["main"] = "m_destroy_window") ~> (pc["prod"] = "p_done" \/ fault)

\* ------------------------------------------------------------ C11 .. C20
\* C11: after Stop() on a started source the producer completes at most one
\* more device read and pushes at most one more frame, and once it has left
\* ProcessSound it reads and pushes nothing.
C11_StopBoundsWork ==
    /\ [](hist.stopped => /\ nReads <= hist.reads + 1
                          /\ Len(pushed) <= hist.pushes + 1)
    /\ [][pc["prod"] = "p_done" =>
             /\ pc'["prod"] = "p_done"
             /\ nReads' = nReads
             /\ pushed' = pushed]_vars

C11_Witness ==
    /\ hist.started /\ hist.stopped
    /\ pc["prod"] = "p_done"
    /\ nReads = hist.reads + 1
    /\ Len(pushed) = hist.pushes + 1

\* C12: the device is destroyed only after the producer thread was joined,
\* that is, after ProcessSound has returned; the thread is never left running
\* past the join.
C12_JoinBeforeTeardown ==
    pc["main"] \in {"m_joined", "m_exit"} => pc["prod"] = "p_done"

C12_Witness ==
    /\ pc["main"] = "m_exit"
    /\ hist.started
    /\ Len(pushed) >= 1

\* C13: the source is Idle, then Started, then Stopped; it is open exactly
\* between the first Start() and the first Stop(), and Stopped is terminal.
C13_StoppedIsTerminal ==
    /\ isOpen = (hist.started /\ ~hist.stopped)
    /\ hist.stopped => /\ nReads <= hist.reads + 1
                       /\ Len(pushed) <= hist.pushes + 1

\* The positions of main inside one iteration of the render loop.
TickBody ==
    {"m_lock_buffer", "m_read", "m_unlock", "m_render", "m_draw", "m_wrap"}

\* C14: the render loop calls Start() when it finds the source closed, so the
\* source is open during every tick; a tick that finds it open leaves the
\* flag alone; and once the source is open the producer leaves its idle wait
\* and pushes a frame (unless Stop() comes first).
C14_StartUnblocks ==
    /\ [](pc["main"] \in TickBody => isOpen /\ hist.started)
    /\ [][pc["main"] = "m_isopen" /\ isOpen => UNCHANGED <<isOpen, hist>>]_vars
    /\ isOpen ~> (Len(pushed) >= 1 \/ hist.stopped)

C14_Witness ==
    /\ isOpen /\ ~hist.stopped
    /\ pc["main"] \in TickBody
    /\ pc["prod"] = "p_unlock_buffer"
    /\ Len(pushed) = 1

\* C15: before the first Start() the producer only idle-waits: no device read
\* has begun, nothing was pushed, the buffer is empty and Read() returns
\* false.
C15_IdleBeforeStart ==
    ~hist.started =>
        /\ pc["prod"] \in {"p_none", "p_wait", "p_sleep"}
        /\ nReads = 0
        /\ pushed = <<>>
        /\ buffer = <<>>
        /\ consumed = <<>>
        /\ pc["main"] = "m_unlock" => ~gotFrame

C15_Witness ==
    /\ ~hist.started
    /\ pc["main"] = "m_unlock"
    /\ ~gotFrame
    /\ pc["prod"] = "p_sleep"

\* C16: a device read that failed is not pushed: every push follows a read
\* that returned true, and every buffered frame is a complete period.
C16_FailedReadSkipped ==
    /\ [][pushed' # pushed => read]_vars
    /\ [](\A i \in 1..Len(buffer) : IsCompleteRead(buffer[i]))

\* C17: when the device cannot be opened, startup ends with the error text
\* "pa_simple_new error:" followed by the platform's message; no producer
\* thread was created, no device read was made, the render loop was not
\* entered, and nothing happens afterwards.
C17_OpenFailureAborts ==
    error # <<>> =>
        /\ pc["main"] = "m_abort"
        /\ pc["prod"] = "p_none"
        /\ error[1] = "pa_simple_new error:"
        /\ error[2] \in PaErrors
        /\ nReads = 0
        /\ ~hist.started
        /\ tick = NoTick
        /\ ~ENABLED Next

C17_Witness ==
    /\ pc["main"] = "m_abort"
    /\ error = <<"pa_simple_new error:", "Access denied">>

\* C18: a tick whose Read returned false converts and uploads nothing, leaves
\* the x-coordinate, the write offset, the point count and the point list as
\* they were when the tick began, and issues exactly one draw call, with the
\* accumulated point count.
C18_EmptyTickDrawsOnce ==
    /\ [](pc["main"] \in {"m_draw", "m_wrap"} /\ ~gotFrame =>
             /\ tick.uploads = 0
             /\ xPosition = tick.x0
             /\ offset = tick.offset0
             /\ count = tick.count0
             /\ Len(channelValues0) = tick.len0
             /\ tick.draws = (IF pc["main"] = "m_wrap" THEN 1 ELSE 0)
             /\ pc["main"] = "m_wrap" => tick.drawn = count)
    /\ [][pc["main"] = "m_wrap" /\ ~gotFrame =>
             UNCHANGED <<xPosition, offset, count, channelValues0>>]_vars

C18_Witness ==
    /\ pc["main"] = "m_wrap"
    /\ ~gotFrame
    /\ tick.draws = 1
    /\ tick.drawn = FramePoints
    /\ Len(consumed) = 1

\* C19: the step that ends a tick resets the x-coordinate to the left edge,
\* the write offset and the point count to zero and clears the point list
\* when the x-coordinate is past the right edge, and resets none of them
\* otherwise; so a tick never begins past the right edge, and the first frame
\* of a sweep is uploaded at offset 0 starting at the left edge.
C19_ScrollWrap ==
    /\ [][pc["main"] = "m_wrap" /\ pc'["main"] # "m_wrap" =>
             IF PastRightEdge(xPosition)
                THEN /\ xPosition' = 0 /\ offset' = 0 /\ count' = 0
                     /\ channelValues0' = <<>>
                ELSE UNCHANGED <<xPosition, offset, count, channelValues0>>]_vars
    /\ [](pc["main"] \in {"m_loop", "m_isopen"} => ~PastRightEdge(xPosition))
    /\ [](tick.uploads = 1 /\ tick.count0 = 0 =>
             tick.upOffset = 0 /\ tick.upX = 0)

\* A second sweep has begun: a frame was uploaded at offset 0 after a wrap.
C19_Witness ==
    /\ pc["main"] = "m_loop"
    /\ Len(consumed) >= 1
    /\ xPosition = 0 /\ offset = 0 /\ count = 0
    /\ channelValues0 = <<>>

\* The smallest even integer >= r * framePeriod, framePeriod = 1 / 60 s.
SmallestEvenAtLeast(r) ==
    CHOOSE e \in 0..(r + 2) :
        /\ e % 2 = 0
        /\ e * FPS_DIVISOR >= r
        /\ (e - 2) * FPS_DIVISOR < r

\* C20: for every sample rate the byte capacity of a frame is twice the
\* smallest even integer >= sampleRate * framePeriod; it is even and
\* >= 2 * sampleRate * framePeriod.
C20_FrameSize ==
    frameBytes # 0 =>
        /\ frameBytes = 2 * SmallestEvenAtLeast(rate)
        /\ frameBytes % 2 = 0
        /\ frameBytes * FPS_DIVISOR >= 2 * rate

\* ------------------------------------------------------------ C21 .. C25
\* C21: decoding inverts the signed 16 bit little-endian encoding: a sample v
\* stored as low byte at i and high byte at i + 1 is decoded to v, a frame
\* gives exactly capacity / 2 points, and the conversion reads no byte past
\* the end of the frame.
C21_DecodeInvertsEncoding ==
    /\ \A v \in Pcm16Tested : BytesToPcm16(HiByte(v), LoByte(v)) = v
    /\ \A i \in ConvertIdx : i + 1 <= capacity - 1
    /\ pc["main"] = "m_draw" =>
          /\ Len(channelValues0) = capacity \div 2
          /\ Len(channelValues0) = Cardinality(ConvertIdx)
          /\ \A j \in 1..Len(channelValues0) : \A v \in Pcm16Tested :
                (sample[2 * j - 1] = LoByte(v) /\ sample[2 * j] = HiByte(v))
                   => channelValues0[j].y = Pcm16ToFloatNum(v)

C21_Witness ==
    /\ pc["main"] = "m_draw"
    /\ sample = EncodeFrame(<<INT16_MIN, -2>>)
    /\ channelValues0[1].y = Pcm16ToFloatNum(INT16_MIN)
    /\ channelValues0[2].y = Pcm16ToFloatNum(-2)

\* The point slots covered by a set of upload ranges.
SlotsOf(ranges) == UNION {r.first..(r.first + r.n - 1) : r \in ranges}

\* C22: at every draw call the count is the number of points uploaded since
\* the last reset and these fill the device buffer from slot 0 without a gap;
\* between ticks the write offset is the count times the size of a point and
\* the list is as long as the count; a consumed frame advances the count by
\* capacity / 2.
C22_CountMatchesUploads ==
    /\ [](tick.draws = 1 =>
             /\ tick.drawn = Cardinality(SlotsOf(vboPoints))
             /\ SlotsOf(vboPoints) = 0..(tick.drawn - 1))
    /\ [](pc["main"] = "m_loop" =>
             /\ offset = count * SizeofVec2
             /\ RunPoints(channelValues0) = count)
    /\ [][pc["main"] = "m_render" /\ pc'["main"] = "m_draw" =>
             count' = IF gotFrame THEN count + frameBytes \div 2
                                  ELSE count]_vars

C22_Witness ==
    /\ tick.draws = 1
    /\ tick.uploads = 1
    /\ tick.drawn = 2 * PointsPerFrame
    /\ SlotsOf(vboPoints) = 0..(2 * PointsPerFrame - 1)

\* C23: the point count never exceeds numPoints, and every upload lies inside
\* the device buffer: the wrap fires before a frame would be written past
\* its end.
C23_SweepFitsBuffer ==
    /\ count <= numPoints
    /\ tick.uploads = 1 =>
          /\ tick.upOffset + FrameUploadBytes <= VboBytes
          /\ UploadSlots(tick.upOffset) \in vboPoints
    /\ \A r \in vboPoints : r.first + r.n <= numPoints

\* The last frame of a sweep: the count is past one second of samples.
C23_Witness ==
    /\ pc["main"] = "m_wrap"
    /\ tick.uploads = 1
    /\ count > rate
    /\ rate = DeviceRate

\* C24: when main returns before the render loop was entered (neither Start()
\* nor Stop() was called), the producer thread terminates, so the join
\* completes and the process exits.
C24_EarlyExitTerminates ==
    (pc["main"] = "m_return" /\ ~hist.started /\ ~hist.stopped)
        ~> (pc["main"] = "m_exit" /\ pc["prod"] = "p_done")

\* C25: in the single-threaded variant every upload lies inside the device
\* buffer of numPoints = 3 * SAMPLE_RATE points, and the count passed to the
\* draw call never exceeds numPoints.
C25_MonoSweepFitsBuffer ==
    /\ tick.uploads = 1 =>
          /\ tick.upOffset + FrameUploadBytes <= MonoVboBytes
          /\ UploadSlots(tick.upOffset) \in vboPoints
    /\ tick.draws = 1 => tick.drawn <= MonoNumPoints(rate)

====
